---- MODULE Spec2Model ----
(***************************************************************************)
(* Model of setup.py of radpal: the two file-reading helpers read_readme   *)
(* and read_requirements, the setup() call they feed, and what the         *)
(* declared metadata (install_requires, extras_require, console_scripts)   *)
(* makes an installer and the generated console command do.                *)
(*                                                                         *)
(* Text is a sequence of characters.  A run of name characters is one      *)
(* element of the sequence ("numpy", "requests", the README title), the    *)
(* characters the code tests for are elements of their own: "#", " ",      *)
(* "\n" and "\r".                                                          *)
(***************************************************************************)
EXTENDS Naturals, Sequences, FiniteSets

VARIABLES fs, pc, error, openLog, long_description, requirements, dist,
          requested, installed, scripts, typed, dispatched

vars == <<fs, pc, error, openLog, long_description, requirements, dist,
          requested, installed, scripts, typed, dispatched>>

\* ---------------------------------------------------------------- bounds
MaxReadmeLen == 2
MaxReqLen == 3

\* ------------------------------------------------------------ characters
LF == "\n"
CR == "\r"
SP == " "
HASH == "#"

README == "README.md"
REQUIREMENTS == "requirements.txt"

DefaultReadme == <<"RadPal - Speech Processing and Text-to-Speech Tools">>
DefaultRequirements_reordered == << <<"requests">>, <<"elevenlabs">> >>

DefaultRequirements == << <<"elevenlabs">>, <<"requests">> >>

ReadmeChars == {"RadPal - Speech Processing and Text-to-Speech Tools", LF, CR}
ReqChars == {"requests", "numpy", HASH, SP, LF, CR}

SeqsUpTo(S, n) == UNION {[1..k -> S] : k \in 0..n}

\* A path is a readable text file, absent, a directory, a file the process
\* may not read, or a file whose bytes are not UTF-8.
FileKinds == {"file", "missing", "directory", "unreadable", "undecodable"}

FileStates(chars, n) ==
    {[kind |-> "file", content |-> c] : c \in SeqsUpTo(chars, n)}
    \cup {[kind |-> k, content |-> <<>>] : k \in FileKinds \ {"file"}}

\* ------------------------------------------------------- text-mode reading
RECURSIVE UniversalNewlines(_)
UniversalNewlines(s) ==
    IF s = <<>> THEN <<>>
    ELSE IF Head(s) = CR
         THEN IF Len(s) > 1 /\ s[2] = LF
              THEN <<LF>> \o UniversalNewlines(Tail(Tail(s)))
              ELSE <<LF>> \o UniversalNewlines(Tail(s))
         ELSE <<Head(s)>> \o UniversalNewlines(Tail(s))

\* open(path, 'r', encoding='utf-8') followed by the read of the whole text
open_file(f, path) ==
    CASE f[path].kind = "missing"     -> [exc |-> "FileNotFoundError", text |-> <<>>]
      [] f[path].kind = "directory"   -> [exc |-> "IsADirectoryError", text |-> <<>>]
      [] f[path].kind = "unreadable"  -> [exc |-> "PermissionError", text |-> <<>>]
      [] f[path].kind = "undecodable" -> [exc |-> "UnicodeDecodeError", text |-> <<>>]
      [] OTHER -> [exc |-> "none", text |-> UniversalNewlines(f[path].content)]

\* iteration over a text file: the lines, each keeping its terminator
RECURSIVE SplitLines(_, _)
SplitLines(s, cur) ==
    IF s = <<>> THEN (IF cur = <<>> THEN <<>> ELSE <<cur>>)
    ELSE IF Head(s) = LF
         THEN <<Append(cur, LF)>> \o SplitLines(Tail(s), <<>>)
         ELSE SplitLines(Tail(s), Append(cur, Head(s)))

readlines(s) == SplitLines(s, <<>>)

IsSpace(c) == c \in {SP, LF, CR}

RECURSIVE lstrip(_)
lstrip(s) == IF s # <<>> /\ IsSpace(Head(s)) THEN lstrip(Tail(s)) ELSE s

RECURSIVE rstrip(_)
rstrip(s) ==
    IF s # <<>> /\ IsSpace(s[Len(s)]) THEN rstrip(SubSeq(s, 1, Len(s) - 1)) ELSE s

strip(s) == rstrip(lstrip(s))

startswith(s, c) == Len(s) > 0 /\ s[1] = c

\* ---------------------------------------------------------------- helpers
\* variant: no except clause, the missing file raises
read_readme_uncaught(f) ==
    LET r == open_file(f, README) IN
    IF r.exc = "none" THEN [exc |-> "none", value |-> r.text]
    ELSE [exc |-> r.exc, value |-> <<>>]

\* variant: return f.read().strip()
read_readme_stripped(f) ==
    LET r == open_file(f, README) IN
    IF r.exc = "none" THEN [exc |-> "none", value |-> strip(r.text)]
    ELSE IF r.exc = "FileNotFoundError"
         THEN [exc |-> "none", value |-> DefaultReadme]
         ELSE [exc |-> r.exc, value |-> <<>>]

read_readme(f) ==
    LET r == open_file(f, README) IN
    IF r.exc = "none" THEN [exc |-> "none", value |-> r.text]
    ELSE IF r.exc = "FileNotFoundError"
         THEN [exc |-> "none", value |-> DefaultReadme]
         ELSE [exc |-> r.exc, value |-> <<>>]

RECURSIVE KeepLines(_)
KeepLines(lines) ==
    IF lines = <<>> THEN <<>>
    ELSE LET line == Head(lines) IN
         IF strip(line) # <<>> /\ ~startswith(line, HASH)
         THEN <<strip(line)>> \o KeepLines(Tail(lines))
         ELSE KeepLines(Tail(lines))

\* variant: a bare except, every failure replaced by the default
read_requirements_catch_all(f) ==
    LET r == open_file(f, REQUIREMENTS) IN
    IF r.exc = "none" THEN [exc |-> "none", value |-> KeepLines(readlines(r.text))]
    ELSE [exc |-> "none", value |-> DefaultRequirements]

\* variant: the default also replaces an empty result
read_requirements_default_when_empty(f) ==
    LET r == open_file(f, REQUIREMENTS) IN
    IF r.exc = "none"
    THEN [exc |-> "none",
          value |-> IF KeepLines(readlines(r.text)) = <<>> THEN DefaultRequirements
                    ELSE KeepLines(readlines(r.text))]
    ELSE IF r.exc = "FileNotFoundError"
         THEN [exc |-> "none", value |-> DefaultRequirements]
         ELSE [exc |-> r.exc, value |-> <<>>]

read_requirements(f) ==
    LET r == open_file(f, REQUIREMENTS) IN
    IF r.exc = "none" THEN [exc |-> "none", value |-> KeepLines(readlines(r.text))]
    ELSE IF r.exc = "FileNotFoundError"
         THEN [exc |-> "none", value |-> DefaultRequirements]
         ELSE [exc |-> r.exc, value |-> <<>>]

\* the open() calls each helper makes, on either path
readme_opens_truncating == <<[file |-> README, mode |-> "w"]>>

readme_opens == <<[file |-> README, mode |-> "r"]>>

requirements_opens == <<[file |-> REQUIREMENTS, mode |-> "r"]>>

\* what an open() does to the file system: mode 'r' creates and changes
\* nothing, mode 'w' creates the file or empties it
open_effect(f, o) ==
    IF o.mode = "r" \/ f[o.file].kind \notin {"file", "missing"} THEN f
    ELSE [f EXCEPT ![o.file] = [kind |-> "file", content |-> <<>>]]

RECURSIVE ApplyOpens(_, _)
ApplyOpens(f, opens) ==
    IF opens = <<>> THEN f ELSE ApplyOpens(open_effect(f, Head(opens)), Tail(opens))

\* ------------------------------------------------------------- setup(...)
NoDist == [name |-> "", long_description |-> <<>>, py_modules |-> {},
           install_requires |-> <<>>, console_scripts |-> <<>>,
           extras_require |-> [audio |-> <<>>, dev |-> <<>>]]

\* variant: the audio group listed among the required dependencies
setup_kwargs_audio_required(ld, reqs) ==
    [name |-> "radpal",
     long_description |-> ld,
     py_modules |-> {"generate_wavs"},
     install_requires |-> reqs \o << <<"soundfile">>, <<"librosa">>, <<"numpy">> >>,
     console_scripts |-> << <<"radpal-generate-wavs", "=", "generate_wavs", ":", "main">> >>,
     extras_require |-> [audio |-> << <<"soundfile">>, <<"librosa">>, <<"numpy">> >>,
                         dev |-> << <<"pytest">>, <<"black">>, <<"flake8">> >>]]

setup_kwargs(ld, reqs) ==
    [name |-> "radpal",
     long_description |-> ld,
     py_modules |-> {"generate_wavs"},
     install_requires |-> reqs,
     console_scripts |-> << <<"radpal-generate-wavs", "=", "generate_wavs", ":", "main">> >>,
     extras_require |-> [audio |-> << <<"soundfile">>, <<"librosa">>, <<"numpy">> >>,
                         dev |-> << <<"pytest">>, <<"black">>, <<"flake8">> >>]]

ToSet(s) == {s[i] : i \in 1..Len(s)}

Extras == {"audio", "dev"}

\* what an install of the distribution with the requested extras requires
required_dists(d, extras) ==
    ToSet(d.install_requires) \cup UNION {ToSet(d.extras_require[e]) : e \in extras}

IndexOf(s, c) == CHOOSE i \in 1..Len(s) : s[i] = c /\ \A j \in 1..(i - 1) : s[j] # c

\* "name=module:attr"
parse_entry_point(s) ==
    LET eq == IndexOf(s, "=")
        colon == IndexOf(s, ":")
    IN [name |-> SubSeq(s, 1, eq - 1),
        module |-> SubSeq(s, eq + 1, colon - 1),
        attr |-> SubSeq(s, colon + 1, Len(s))]

entry_scripts(d) == {parse_entry_point(d.console_scripts[i]) : i \in 1..Len(d.console_scripts)}

\* variant: the wrapper hands the command line to the function
console_script_call_forwarding(ep, argv) == [module |-> ep.module, attr |-> ep.attr, args |-> argv]

\* the generated wrapper calls module.attr() and passes nothing
console_script_call(ep, argv) == [module |-> ep.module, attr |-> ep.attr, args |-> <<>>]

CommandNames == {<<"radpal-generate-wavs">>, <<"generate_wavs">>}
Argvs == {<<>>, <<"--help">>}

\* ------------------------------------------------------------------- Init
Init ==
    /\ fs \in {[p \in {README, REQUIREMENTS} |-> IF p = README THEN a ELSE b] :
                 a \in FileStates(ReadmeChars, MaxReadmeLen),
                 b \in FileStates(ReqChars, MaxReqLen)}
    /\ pc = "start"
    /\ error = "none"
    /\ openLog = <<>>
    /\ long_description = <<>>
    /\ requirements = <<>>
    /\ dist = NoDist
    /\ requested = {}
    /\ installed = {}
    /\ scripts = {}
    /\ typed = [cmd |-> <<>>, argv |-> <<>>]
    /\ dispatched = <<>>

\* ---------------------------------------------------------------- actions
\* long_description=read_readme(): the first argument evaluated
ReadReadme ==
    /\ pc = "start"
    /\ LET r == read_readme(fs) IN
          /\ error' = r.exc
          /\ long_description' = r.value
          /\ pc' = IF r.exc = "none" THEN "readme_done" ELSE "failed"
    /\ openLog' = openLog \o readme_opens
    /\ fs' = ApplyOpens(fs, readme_opens)
    /\ UNCHANGED <<requirements, dist, requested, installed, scripts, typed, dispatched>>

\* install_requires=read_requirements(): evaluated after read_readme returned
ReadRequirements ==
    /\ pc = "readme_done"
    /\ LET r == read_requirements(fs) IN
          /\ error' = r.exc
          /\ requirements' = r.value
          /\ pc' = IF r.exc = "none" THEN "reqs_done" ELSE "failed"
    /\ openLog' = openLog \o requirements_opens
    /\ fs' = ApplyOpens(fs, requirements_opens)
    /\ UNCHANGED <<long_description, dist, requested, installed, scripts, typed, dispatched>>

\* the setup() call itself, reached once both arguments are evaluated
Setup ==
    /\ pc = "reqs_done"
    /\ dist' = setup_kwargs(long_description, requirements)
    /\ pc' = "setup_done"
    /\ UNCHANGED <<fs, error, openLog, long_description, requirements,
                   requested, installed, scripts, typed, dispatched>>

\* an install of the built distribution, with the extras the user asks for
Install ==
    /\ pc = "setup_done"
    /\ \E extras \in SUBSET Extras :
          /\ requested' = extras
          /\ installed' = required_dists(dist, extras)
    /\ scripts' = entry_scripts(dist)
    /\ pc' = "installed"
    /\ UNCHANGED <<fs, error, openLog, long_description, requirements, dist, typed, dispatched>>

\* the user types a command name with some arguments at the shell
Invoke ==
    /\ pc = "installed"
    /\ \E cmd \in CommandNames, argv \in Argvs :
          /\ typed' = [cmd |-> cmd, argv |-> argv]
          /\ dispatched' =
                IF \E ep \in scripts : ep.name = cmd
                THEN <<console_script_call(CHOOSE ep \in scripts : ep.name = cmd, argv)>>
                ELSE <<>>
    /\ pc' = "invoked"
    /\ UNCHANGED <<fs, error, openLog, long_description, requirements, dist,
                   requested, installed, scripts>>

Next == ReadReadme \/ ReadRequirements \/ Setup \/ Install \/ Invoke

Spec == Init /\ [][Next]_vars

\* =================================================================
\* Properties
\* =================================================================
AfterReadme == {"readme_done", "reqs_done", "setup_done", "installed", "invoked"}
AfterReqs == {"reqs_done", "setup_done", "installed", "invoked"}
AfterSetup == {"setup_done", "installed", "invoked"}
AfterInstall == {"installed", "invoked"}

\* the lines of requirements.txt as the specification classifies them
FileLines(path) == readlines(UniversalNewlines(fs[path].content))

IsBlankLine(l) == \A i \in 1..Len(l) : IsSpace(l[i])
IsCommentLine(l) ==
    \E i \in 1..Len(l) : l[i] = HASH /\ \A j \in 1..(i - 1) : IsSpace(l[j])
IsSpecifierLine(l) == ~IsBlankLine(l) /\ ~IsCommentLine(l)

Trimmed(l) ==
    LET keep == {i \in 1..Len(l) : ~IsSpace(l[i])} IN
    IF keep = {} THEN <<>>
    ELSE SubSeq(l, CHOOSE i \in keep : \A j \in keep : i <= j,
                   CHOOSE i \in keep : \A j \in keep : i >= j)

ExpectedRequirements(lines) ==
    LET sel == SelectSeq(lines, IsSpecifierLine) IN
    [i \in 1..Len(sel) |-> Trimmed(sel[i])]

\* C1: for a present requirements file, read_requirements returns exactly
\* the valid specifier lines, trimmed, in file order, with every blank and
\* every comment line (however indented) excluded.
CE_C1 ==
    (pc \in AfterReqs /\ fs[REQUIREMENTS].kind = "file")
        => requirements = ExpectedRequirements(FileLines(REQUIREMENTS))

\* C2 (as stated): no file-read failure of README.md or requirements.txt
\* ever propagates; the run never aborts with an error.
CE_C2 == error = "none" /\ pc # "failed"

Recovered == {"file", "missing"}

\* C2 (amended): only the missing file is recovered by the default value.
\* A file that is a directory, unreadable or not UTF-8 propagates its error
\* out of the helper and setup() is not reached; setup() is reached exactly
\* with both files present-and-readable or missing.
Thm_C2 ==
    /\ (pc \in AfterReadme) => (fs[README].kind \in Recovered /\ error = "none")
    /\ (pc \in AfterReqs) => fs[REQUIREMENTS].kind \in Recovered
    /\ (pc = "failed") =>
          /\ error \in {"IsADirectoryError", "PermissionError", "UnicodeDecodeError"}
          /\ \/ fs[README].kind \notin Recovered
             \/ fs[REQUIREMENTS].kind \notin Recovered
          /\ dist = NoDist
    /\ (pc = "failed" /\ Len(openLog) = 1) => fs[README].kind \notin Recovered
    /\ (pc = "failed" /\ Len(openLog) = 2) =>
          (fs[README].kind \in Recovered /\ fs[REQUIREMENTS].kind \notin Recovered)
    /\ (pc = "start") => error = "none"

Wit_C2 ==
    /\ pc = "failed"
    /\ fs[README].kind = "missing"
    /\ long_description = DefaultReadme
    /\ fs[REQUIREMENTS].kind = "directory"
    /\ error = "IsADirectoryError"

\* C3: the dependency list passed to setup() as install_requires holds only
\* non-empty strings, none of which begins with the comment marker.
CE_C3 ==
    (pc \in AfterSetup) =>
        \A i \in 1..Len(dist.install_requires) :
            /\ dist.install_requires[i] # <<>>
            /\ dist.install_requires[i][1] # HASH

\* C4: with requirements.txt missing, read_requirements raises nothing and
\* the dependency list is ["elevenlabs", "requests"], whatever README.md is.
Thm_C4 ==
    /\ (pc \in AfterReqs /\ fs[REQUIREMENTS].kind = "missing") =>
          (error = "none" /\ requirements = << <<"elevenlabs">>, <<"requests">> >>)
    /\ (pc \in AfterSetup /\ fs[REQUIREMENTS].kind = "missing") =>
          dist.install_requires = << <<"elevenlabs">>, <<"requests">> >>
    /\ (pc = "failed" /\ fs[REQUIREMENTS].kind = "missing") => Len(openLog) = 1

Wit_C4 ==
    /\ pc = "setup_done"
    /\ fs[REQUIREMENTS].kind = "missing"
    /\ fs[README].kind = "file"
    /\ Len(dist.install_requires) = 2

\* C5: with README.md missing, read_readme raises nothing and the long
\* description is the fixed fallback string, whatever requirements.txt is.
Thm_C5 ==
    /\ (pc # "start" /\ fs[README].kind = "missing") =>
          /\ long_description = <<"RadPal - Speech Processing and Text-to-Speech Tools">>
          /\ (Len(openLog) = 1 => (error = "none" /\ pc = "readme_done"))
    /\ (pc \in AfterSetup /\ fs[README].kind = "missing") =>
          dist.long_description = <<"RadPal - Speech Processing and Text-to-Speech Tools">>

Wit_C5 ==
    /\ pc = "setup_done"
    /\ fs[README].kind = "missing"
    /\ fs[REQUIREMENTS].kind = "file"
    /\ Len(dist.long_description) = 1

\* C6 (as stated): with README.md present, the long description passed to
\* setup() equals the file's exact contents, for every content.
CE_C6 ==
    (pc \in AfterSetup /\ fs[README].kind = "file")
        => dist.long_description = fs[README].content

\* the content with each "\r\n" and each lone "\r" turned into "\n"
RECURSIVE NewlinesTranslated(_)
NewlinesTranslated(s) ==
    IF s = <<>> THEN <<>>
    ELSE LET n == Len(s)
             front == SubSeq(s, 1, n - 1)
         IN IF s[n] = LF /\ n > 1 /\ s[n - 1] = CR
            THEN NewlinesTranslated(front)
            ELSE Append(NewlinesTranslated(front), IF s[n] = CR THEN LF ELSE s[n])

\* C6 (amended): with README.md present and readable, the long description
\* passed to setup() is the file's text as text mode delivers it: every
\* "\r\n" and lone "\r" read as "\n", and nothing else trimmed, filtered,
\* appended or replaced.
Thm_C6 ==
    (pc \in AfterSetup /\ fs[README].kind = "file")
        => dist.long_description = NewlinesTranslated(fs[README].content)

Wit_C6 ==
    /\ pc = "setup_done"
    /\ fs[README].kind = "file"
    /\ fs[README].content = <<CR, LF>>
    /\ dist.long_description = <<LF>>

\* C7: exactly one console command, radpal-generate-wavs, is registered;
\* every invocation of it dispatches to main of generate_wavs, a module of
\* py_modules, with no arguments; nothing else is registered or dispatched.
Thm_C7 ==
    /\ (pc \in AfterSetup) => Len(dist.console_scripts) = 1
    /\ (pc \in AfterInstall) =>
          /\ {ep.name : ep \in scripts} = {<<"radpal-generate-wavs">>}
          /\ Cardinality(scripts) = 1
    /\ (pc = "invoked" /\ typed.cmd = <<"radpal-generate-wavs">>) =>
          dispatched = <<[module |-> <<"generate_wavs">>, attr |-> <<"main">>, args |-> <<>>]>>
    /\ (pc = "invoked" /\ typed.cmd # <<"radpal-generate-wavs">>) => dispatched = <<>>
    /\ \A i \in 1..Len(dispatched) :
          \E m \in dist.py_modules : dispatched[i].module = <<m>>

Wit_C7 ==
    /\ pc = "invoked"
    /\ typed = [cmd |-> <<"radpal-generate-wavs">>, argv |-> <<"--help">>]
    /\ Len(dispatched) = 1

AudioPackages == {<<"soundfile">>, <<"librosa">>, <<"numpy">>}
DevPackages == {<<"pytest">>, <<"black">>, <<"flake8">>}
GroupPackages(e) == IF e = "audio" THEN AudioPackages ELSE DevPackages

\* C8 (as stated): without extras the required set is exactly the list of
\* read_requirements, and for every requirements.txt the set holds none of
\* an extra's packages unless that extra was requested.
CE_C8 ==
    (pc \in AfterInstall) =>
        /\ (requested = {} => installed = ToSet(requirements))
        /\ \A e \in Extras \ requested : installed \cap GroupPackages(e) = {}

\* C8 (amended): the required set is exactly the list of read_requirements
\* plus the packages of the requested groups; a package of a group that was
\* not requested is required only when requirements.txt itself names it.
Thm_C8 ==
    (pc \in AfterInstall) =>
        /\ installed = ToSet(requirements) \cup UNION {GroupPackages(e) : e \in requested}
        /\ (requested = {} => installed = ToSet(requirements))
        /\ \A e \in Extras \ requested :
              installed \cap GroupPackages(e) \subseteq ToSet(requirements)

Wit_C8 ==
    /\ pc = "installed"
    /\ requested = {}
    /\ fs[REQUIREMENTS].kind = "file"
    /\ <<"numpy">> \in installed

OpenLogOK ==
    /\ \A i \in 1..Len(openLog) :
          openLog[i].mode = "r" /\ openLog[i].file \in {README, REQUIREMENTS}
    /\ \A i, j \in 1..Len(openLog) : openLog[i].file = openLog[j].file => i = j

\* C9: no step of the run changes the existence or contents of any file,
\* and README.md and requirements.txt are each opened at most once, for
\* reading only, on the success and on the fallback path alike.
Thm_C9 == [][fs' = fs /\ OpenLogOK']_vars

Wit_C9 ==
    /\ pc = "reqs_done"
    /\ Len(openLog) = 2
    /\ fs[README].kind = "missing"
    /\ fs[REQUIREMENTS].kind = "file"

\* a line terminator is "\n", "\r\n" or a lone "\r"
NumLines(c) ==
    LET ends == {i \in 1..Len(c) :
                   c[i] = LF \/ (c[i] = CR /\ ~(i < Len(c) /\ c[i + 1] = LF))}
    IN Cardinality(ends) + (IF c # <<>> /\ Len(c) \notin ends THEN 1 ELSE 0)

NoSpecifierLine(lines) ==
    \A i \in 1..Len(lines) : IsBlankLine(lines[i]) \/ lines[i][1] = HASH

\* C10: a requirements.txt that exists but holds no specifier line (empty,
\* or only blank lines and lines starting with '#') yields the empty list,
\* not the default; the list is never longer than the file has lines.
Thm_C10 ==
    (pc \in AfterReqs /\ fs[REQUIREMENTS].kind = "file") =>
        /\ NoSpecifierLine(FileLines(REQUIREMENTS)) => requirements = <<>>
        /\ Len(requirements) <= NumLines(fs[REQUIREMENTS].content)

Wit_C10 ==
    /\ pc = "reqs_done"
    /\ fs[REQUIREMENTS].kind = "file"
    /\ fs[REQUIREMENTS].content = <<HASH, "numpy", LF>>
    /\ requirements = <<>>

====
